---- MODULE Spec2Model ----
(***************************************************************************)
(* Certificate registry: the CertificateRegistry contract (the Ledger),    *)
(* the Express backend's certificate routes (issuance, verification,       *)
(* revocation, admin update and delete), the SQLite certificates table     *)
(* (the Local Record Store) and the uploads directory (the Document        *)
(* Store).                                                                 *)
(*                                                                         *)
(* A request handler is a process that runs from one await to the next in  *)
(* one step; handlers of different requests interleave at their awaits.    *)
(* Strings that the code trims or measures are sequences of one-character  *)
(* strings; identifiers and file names are strings built by concatenation. *)
(***************************************************************************)
EXTENDS Integers, Sequences, FiniteSets, TLC

VARIABLES
    certificates,            \* contract: mapping(string => Certificate)
    authorizedInstitutions,  \* contract: mapping(address => bool)
    admin,                   \* contract: address admin
    db,                      \* backend: rows of the certificates table, keyed by certId
    uploads,                 \* backend: files of the uploads directory, name -> content
    now,                     \* wall clock: Date.now() and block.timestamp
    req,                     \* the request handlers in flight, one per connection
    history                  \* a record of past responses: the certIds issued with
                             \* success, revoked with success, and written to the
                             \* ledger by an issuance that then failed

vars == <<certificates, authorizedInstitutions, admin, db, uploads, now, req, history>>

(***************************************************************************)
(* Bounds of the model.                                                    *)
(***************************************************************************)
MaxClock == 2

Times == 1..MaxClock

Reqs == {"r1", "r2"}

\* The accounts that send transactions: the deployer of the contract, the
\* backend's wallet (PRIVATE_KEY) and one more account.
Deployer == "deployer"
Wallet == "wallet"
Addresses == {Deployer, Wallet, "outsider"}

(***************************************************************************)
(* Identifiers and file names.                                             *)
(***************************************************************************)
\* `CERT${Date.now()}`
CertIdAt(t) == "CERT" \o ToString(t)

NeverIssuedId == "CERT-does-not-exist"

CertIds == {CertIdAt(t) : t \in Times} \cup {NeverIssuedId}

\* `temp_${Date.now()}${path.extname(file.originalname)}`
TempName(t, ext) == "temp_" \o ToString(t) \o ext

\* `${certId}${ext}`
DocName(certId, ext) == certId \o ext

\* An uploaded document is known by its original name, a pair (base name,
\* extension), which also stands for the file's bytes; <<>> is no document.
\* path.extname(originalname)
Extname(originalname) == originalname[2]

(***************************************************************************)
(* Text fields.                                                            *)
(***************************************************************************)
\* A field the request does not carry, and a NULL text column.
Undefined == <<"undefined">>
NullText == <<"null">>

IsSpace(ch) == ch = " "

\* String.prototype.trim as the validator's sanitizer applies it: a missing
\* field is sanitized as the empty string.
RECURSIVE TrimLeft(_)
TrimLeft(s) ==
    IF s = <<>> THEN <<>>
    ELSE IF IsSpace(Head(s)) THEN TrimLeft(Tail(s))
    ELSE s

RECURSIVE TrimRight(_)
TrimRight(s) ==
    IF s = <<>> THEN <<>>
    ELSE IF IsSpace(s[Len(s)]) THEN TrimRight(SubSeq(s, 1, Len(s) - 1))
    ELSE s

ToStr(v) == IF v = Undefined THEN <<>> ELSE v

Trim(v) == TrimRight(TrimLeft(ToStr(v)))

\* String.prototype.includes on a message of words.
Includes(message, needle) ==
    \E i \in 1..(Len(message) - Len(needle) + 1) :
        SubSeq(message, i, i + Len(needle) - 1) = needle

(***************************************************************************)
(* The contract.                                                           *)
(***************************************************************************)
ZeroCertificate ==
    [studentName |-> <<>>, course |-> <<>>, grade |-> <<>>,
     issueDate |-> 0, isRevoked |-> FALSE, exists |-> FALSE]

OnlyAdminMsg == <<"Only", "admin">>
NotAuthorizedMsg == <<"Not", "authorized">>
AlreadyExistsMsg == <<"Already", "exists">>
DoesNotExistMsg == <<"Certificate", "does", "not", "exist">>
AlreadyRevokedMsg == <<"Already", "revoked">>

\* The outcome of a call: reverted with a reason and the storage untouched,
\* or executed with the storage it leaves and the values it returns.
Reverted(reason) ==
    [reverted |-> TRUE, reason |-> reason, certificates |-> certificates,
     authorizedInstitutions |-> authorizedInstitutions, returns |-> ZeroCertificate]

Executed(certs, auth, returns) ==
    [reverted |-> FALSE, reason |-> <<>>, certificates |-> certs,
     authorizedInstitutions |-> auth, returns |-> returns]

onlyAdmin(sender) == sender = admin

\* A modifier that lets every sender through.
onlyAuthorizedAnyone(sender) == TRUE

onlyAuthorized(sender) == authorizedInstitutions[sender]

addInstitution(sender, institution) ==
    IF ~onlyAdmin(sender) THEN Reverted(OnlyAdminMsg)
    ELSE Executed(certificates,
                  [authorizedInstitutions EXCEPT ![institution] = TRUE],
                  ZeroCertificate)

\* issueCertificate without its require(!certificates[certId].exists).
issueCertificateOverwrites(sender, certId, studentName, course, grade) ==
    IF ~onlyAuthorized(sender) THEN Reverted(NotAuthorizedMsg)
    ELSE Executed([certificates EXCEPT ![certId] =
                      [studentName |-> studentName, course |-> course,
                       grade |-> grade, issueDate |-> now,
                       isRevoked |-> FALSE, exists |-> TRUE]],
                  authorizedInstitutions, ZeroCertificate)

issueCertificate(sender, certId, studentName, course, grade) ==
    IF ~onlyAuthorized(sender) THEN Reverted(NotAuthorizedMsg)
    ELSE IF certificates[certId].exists THEN Reverted(AlreadyExistsMsg)
    ELSE Executed([certificates EXCEPT ![certId] =
                      [studentName |-> studentName, course |-> course,
                       grade |-> grade, issueDate |-> now,
                       isRevoked |-> FALSE, exists |-> TRUE]],
                  authorizedInstitutions, ZeroCertificate)

\* revokeCertificate without its require(!certificates[certId].isRevoked).
revokeCertificateAgain(sender, certId) ==
    IF ~onlyAuthorized(sender) THEN Reverted(NotAuthorizedMsg)
    ELSE IF ~certificates[certId].exists THEN Reverted(DoesNotExistMsg)
    ELSE Executed([certificates EXCEPT ![certId].isRevoked = TRUE],
                  authorizedInstitutions, ZeroCertificate)

\* revokeCertificate that deletes the record instead of flagging it.
revokeCertificateDeletes(sender, certId) ==
    IF ~onlyAuthorized(sender) THEN Reverted(NotAuthorizedMsg)
    ELSE IF ~certificates[certId].exists THEN Reverted(DoesNotExistMsg)
    ELSE IF certificates[certId].isRevoked THEN Reverted(AlreadyRevokedMsg)
    ELSE Executed([certificates EXCEPT ![certId] = ZeroCertificate],
                  authorizedInstitutions, ZeroCertificate)

\* revokeCertificate that stamps the record with the time of the revocation.
revokeCertificateStamps(sender, certId) ==
    IF ~onlyAuthorized(sender) THEN Reverted(NotAuthorizedMsg)
    ELSE IF ~certificates[certId].exists THEN Reverted(DoesNotExistMsg)
    ELSE IF certificates[certId].isRevoked THEN Reverted(AlreadyRevokedMsg)
    ELSE Executed([certificates EXCEPT ![certId].isRevoked = TRUE,
                                       ![certId].issueDate = now],
                  authorizedInstitutions, ZeroCertificate)

revokeCertificate(sender, certId) ==
    IF ~onlyAuthorized(sender) THEN Reverted(NotAuthorizedMsg)
    ELSE IF ~certificates[certId].exists THEN Reverted(DoesNotExistMsg)
    ELSE IF certificates[certId].isRevoked THEN Reverted(AlreadyRevokedMsg)
    ELSE Executed([certificates EXCEPT ![certId].isRevoked = TRUE],
                  authorizedInstitutions, ZeroCertificate)

verifyCertificate(certId) ==
    IF ~certificates[certId].exists THEN Reverted(DoesNotExistMsg)
    ELSE Executed(certificates, authorizedInstitutions, certificates[certId])

(***************************************************************************)
(* The transport between the backend and the contract.                     *)
(***************************************************************************)
\* The message of the error a reverted eth_call or estimateGas rejects with:
\* it carries the contract's reason.
CallException(reason) == <<"execution", "reverted:">> \o reason

\* The message of the error tx.wait() rejects with when the mined transaction
\* reverted: the receipt carries no reason.
TransactionRevertedMsg == <<"transaction", "execution", "reverted">>

\* The message of a transport failure (node unreachable, request timeout).
NetworkErrorMsg == <<"request", "timeout">>

\* tx.hash
TxHash(fn, certId) == "0x" \o fn \o ":" \o certId

(***************************************************************************)
(* Requests.                                                               *)
(***************************************************************************)
Null == "null"

NoUpload == [path |-> Null, originalname |-> <<>>]

NoBody == [studentName |-> Undefined, course |-> Undefined, grade |-> Undefined]

NoInput == [token |-> "none", certId |-> Null, body |-> NoBody,
            originalname |-> <<>>, notes |-> Undefined]

NoResponse == [status |-> 0]

Idle == [kind |-> "none", pc |-> "idle", input |-> NoInput, body |-> NoBody,
         file |-> NoUpload, certId |-> Null, documentPath |-> Null,
         result |-> ZeroCertificate, rows |-> <<>>, bytes |-> <<>>,
         aborted |-> FALSE,
         response |-> NoResponse]

\* A handler that has sent its response keeps the route, the certId, whether
\* the client has gone, and the response.
Done(q, response) ==
    [Idle EXCEPT !.kind = q.kind, !.pc = "done", !.certId = q.certId,
                 !.aborted = q.aborted, !.response = response]

\* f with key k told to be v.
Told(f, k, v) == [x \in DOMAIN f \cup {k} |-> IF x = k THEN v ELSE f[x]]

Json(status, body) == [status |-> status, body |-> body]

\* fs.writeFile / fs.unlinkSync / fs.existsSync / fs.renameSync on uploads.
ExistsSync(files, name) == name \in DOMAIN files

WriteFile(files, name, content) ==
    [n \in DOMAIN files \cup {name} |-> IF n = name THEN content ELSE files[n]]

UnlinkSync(files, name) == [n \in DOMAIN files \ {name} |-> files[n]]

RenameSync(files, from, to) == WriteFile(UnlinkSync(files, from), to, files[from])

\* multer's upload.single('document') with diskStorage: a request that
\* carries a file has it written under a temp name before the handler runs.
MulterFile(originalname) ==
    IF originalname = <<>> THEN NoUpload
    ELSE [path |-> TempName(now, Extname(originalname)), originalname |-> originalname]

MulterStore(originalname) ==
    IF originalname = <<>> THEN uploads
    ELSE WriteFile(uploads, TempName(now, Extname(originalname)), originalname)

\* A middleware that asks for a token and does not verify it.
authenticateTokenPresent(token) ==
    IF token = "none" THEN 401
    ELSE 0

\* authenticateToken: the status it answers with, 0 when it calls next().
authenticateToken(token) ==
    IF token = "none" THEN 401
    ELSE IF token # "valid" THEN 403
    ELSE 0

AuthError(status) ==
    IF status = 401 THEN Json(401, [error |-> "Access token required"])
    ELSE Json(403, [error |-> "Invalid or expired token"])

\* errorHandler for an error that is no MulterError and has no status, with
\* NODE_ENV other than development.
errorHandler(message) == Json(500, [error |-> "Internal server error"])

(***************************************************************************)
(* Transactions sent to the contract by any account, without the backend.  *)
(* The client is answered with the transaction's outcome.                  *)
(***************************************************************************)
Outcome(sender, out) ==
    Json(IF out.reverted THEN 0 ELSE 1,
         [sender |-> sender, reverted |-> out.reverted, reason |-> out.reason])

Sent(fn, sender, certId, out) ==
    [Idle EXCEPT !.kind = fn, !.pc = "done", !.certId = certId,
                 !.response = Outcome(sender, out)]

CallAddInstitution(r, sender, institution) ==
    LET out == addInstitution(sender, institution) IN
    /\ req[r] = Idle
    /\ authorizedInstitutions' = out.authorizedInstitutions
    /\ req' = [req EXCEPT ![r] = Sent("addInstitution", sender, institution, out)]
    /\ UNCHANGED <<certificates, admin, db, uploads, now, history>>

CallIssueCertificate(r, sender, certId, text) ==
    LET out == issueCertificate(sender, certId, text, text, text) IN
    /\ req[r] = Idle
    /\ certificates' = out.certificates
    /\ req' = [req EXCEPT ![r] = Sent("issueCertificate", sender, certId, out)]
    /\ UNCHANGED <<authorizedInstitutions, admin, db, uploads, now, history>>

CallRevokeCertificate(r, sender, certId) ==
    LET out == revokeCertificate(sender, certId) IN
    /\ req[r] = Idle
    /\ certificates' = out.certificates
    /\ req' = [req EXCEPT ![r] = Sent("revokeCertificate", sender, certId, out)]
    /\ UNCHANGED <<authorizedInstitutions, admin, db, uploads, now, history>>

(***************************************************************************)
(* POST /api/certificates/issue                                            *)
(***************************************************************************)
NameMin == 2
NameMax == 100
CourseMin == 2
CourseMax == 100
GradeMin == 1
GradeMax == 50

\* notEmpty().isLength({min, max}) on the trimmed value.
ValidLength(v, min, max) == v # <<>> /\ Len(v) >= min /\ Len(v) <= max

\* The validation chain without its trim() sanitizers.
SanitizeUntrimmed(body) ==
    [studentName |-> ToStr(body.studentName), course |-> ToStr(body.course),
     grade |-> ToStr(body.grade)]

\* The sanitizers of the validation chain replace req.body's fields.
Sanitize(body) ==
    [studentName |-> Trim(body.studentName), course |-> Trim(body.course),
     grade |-> Trim(body.grade)]

ValidationPasses(body) ==
    /\ ValidLength(Sanitize(body).studentName, NameMin, NameMax)
    /\ ValidLength(Sanitize(body).course, CourseMin, CourseMax)
    /\ ValidLength(Sanitize(body).grade, GradeMin, GradeMax)

\* A catch block that hands the error on and leaves the temp file.
IssueCatchKeepsFile(r, files, message) ==
    /\ uploads' = files
    /\ req' = [req EXCEPT ![r] =
                  [Done(req[r], errorHandler(message)) EXCEPT !.file = req[r].file]]

\* The catch block of the issue handler: the temp file is removed if it is
\* still there, and the error goes to errorHandler. req.file stays what
\* multer made it.
IssueCatch(r, files, message) ==
    /\ uploads' = IF req[r].file # NoUpload /\ ExistsSync(files, req[r].file.path)
                  THEN UnlinkSync(files, req[r].file.path)
                  ELSE files
    /\ req' = [req EXCEPT ![r] =
                  [Done(req[r], errorHandler(message)) EXCEPT !.file = req[r].file]]

\* The request arrives: multer stores the uploaded file.
IssueReceive(r, body, originalname) ==
    /\ req[r] = Idle
    /\ uploads' = MulterStore(originalname)
    /\ req' = [req EXCEPT ![r] =
                  [Idle EXCEPT !.kind = "issue", !.pc = "validate",
                               !.input = [NoInput EXCEPT !.body = body,
                                                         !.originalname = originalname],
                               !.file = MulterFile(originalname)]]
    /\ UNCHANGED <<certificates, authorizedInstitutions, admin, db, now, history>>

\* The validators and handleValidationErrors run, then the handler starts:
\* it draws the certId and calls contract.issueCertificate.
IssueHandle(r) ==
    /\ req[r].kind = "issue" /\ req[r].pc = "validate"
    /\ IF ~ValidationPasses(req[r].input.body)
       THEN req' = [req EXCEPT ![r] =
                       Done(req[r], Json(400, [error |-> "Validation failed"]))]
       ELSE req' = [req EXCEPT ![r].pc = "estimate",
                               ![r].body = Sanitize(req[r].input.body),
                               ![r].certId = CertIdAt(now)]
    /\ UNCHANGED <<certificates, authorizedInstitutions, admin, db, uploads, now, history>>

\* IssueEstimate for a handler that goes on when the call is rejected.
IssueEstimateSwallows(r, reachable) ==
    LET q == req[r]
        out == issueCertificate(Wallet, q.certId, q.body.studentName, q.body.course, q.body.grade)
    IN
    /\ q.kind = "issue" /\ q.pc = "estimate"
    /\ req' = [req EXCEPT ![r].pc = IF ~reachable \/ out.reverted THEN "confirmed" ELSE "wait"]
    /\ UNCHANGED <<certificates, authorizedInstitutions, admin, db, uploads, now, history>>

\* IssueEstimate for a handler that does not await tx.wait().
IssueEstimateNoWait(r, reachable) ==
    LET q == req[r]
        out == issueCertificate(Wallet, q.certId, q.body.studentName, q.body.course, q.body.grade)
    IN
    /\ q.kind = "issue" /\ q.pc = "estimate"
    /\ IF ~reachable THEN IssueCatch(r, uploads, NetworkErrorMsg)
       ELSE IF out.reverted THEN IssueCatch(r, uploads, CallException(out.reason))
       ELSE req' = [req EXCEPT ![r].pc = "confirmed"] /\ UNCHANGED uploads
    /\ UNCHANGED <<certificates, authorizedInstitutions, admin, db, now, history>>

\* contract.issueCertificate(...) settles: the node simulates the call
\* (estimateGas) and, if it does not revert, takes the transaction.
IssueEstimate(r, reachable) ==
    LET q == req[r]
        out == issueCertificate(Wallet, q.certId, q.body.studentName, q.body.course, q.body.grade)
    IN
    /\ q.kind = "issue" /\ q.pc = "estimate"
    /\ IF ~reachable THEN IssueCatch(r, uploads, NetworkErrorMsg)
       ELSE IF out.reverted THEN IssueCatch(r, uploads, CallException(out.reason))
       ELSE req' = [req EXCEPT ![r].pc = "wait"] /\ UNCHANGED uploads
    /\ UNCHANGED <<certificates, authorizedInstitutions, admin, db, now, history>>

\* IssueMined for a handler that goes on whatever the receipt says.
IssueMinedUnchecked(r) ==
    LET q == req[r]
        out == issueCertificate(Wallet, q.certId, q.body.studentName, q.body.course, q.body.grade)
    IN
    /\ q.kind = "issue" /\ q.pc = "wait"
    /\ certificates' = out.certificates
    /\ req' = [req EXCEPT ![r].pc = "confirmed"]
    /\ UNCHANGED <<authorizedInstitutions, admin, db, uploads, now, history>>

\* The transaction is mined and tx.wait() settles: the call runs on the
\* contract's storage as it is then.
IssueMined(r) ==
    LET q == req[r]
        out == issueCertificate(Wallet, q.certId, q.body.studentName, q.body.course, q.body.grade)
    IN
    /\ q.kind = "issue" /\ q.pc = "wait"
    /\ IF out.reverted
       THEN IssueCatch(r, uploads, TransactionRevertedMsg) /\ UNCHANGED certificates
       ELSE /\ certificates' = out.certificates
            /\ req' = [req EXCEPT ![r].pc = "confirmed"]
            /\ UNCHANGED uploads
    /\ UNCHANGED <<authorizedInstitutions, admin, db, now, history>>

\* The client of an issuance closes its connection after the request has
\* been received. No handler listens for it.
ClientDisconnects(r) ==
    /\ req[r].kind = "issue" /\ req[r].pc \notin {"idle", "done"}
    /\ ~req[r].aborted
    /\ req' = [req EXCEPT ![r].aborted = TRUE]
    /\ UNCHANGED <<certificates, authorizedInstitutions, admin, db, uploads, now, history>>

\* After tx.wait(): the uploaded file is renamed after the certId, then the
\* handler awaits generateQRCode.
IssueRename(r) ==
    LET q == req[r]
        newFilename == DocName(q.certId, Extname(q.file.originalname))
    IN
    /\ q.kind = "issue" /\ q.pc = "confirmed"
    /\ IF q.file = NoUpload
       THEN req' = [req EXCEPT ![r].pc = "qr"] /\ UNCHANGED uploads
       ELSE IF ~ExistsSync(uploads, q.file.path)
       THEN IssueCatch(r, uploads, <<"ENOENT">>)
       ELSE /\ uploads' = RenameSync(uploads, q.file.path, newFilename)
            /\ req' = [req EXCEPT ![r].pc = "qr", ![r].documentPath = newFilename]
    /\ history' = IF q.file # NoUpload /\ ~ExistsSync(uploads, q.file.path)
                  THEN [history EXCEPT !.unmirrored =
                           Told(history.unmirrored, q.certId, q.input.body)]
                  ELSE history
    /\ UNCHANGED <<certificates, authorizedInstitutions, admin, db, now>>

\* A row of the certificates table. The columns id, issueDate and createdAt,
\* which no route reads to decide anything, are left out.
Row(certId, body, txHash, documentPath, originalname) ==
    [certId |-> certId, studentName |-> body.studentName, course |-> body.course,
     grade |-> body.grade, txHash |-> txHash,
     documentPath |-> documentPath, documentOriginalName |-> originalname,
     notes |-> NullText]

IssueResponse(certId, txHash, documentPath) ==
    Json(200, [success |-> TRUE, certId |-> certId, txHash |-> txHash,
               hasDocument |-> documentPath # Null,
               verifyUrl |-> "/verify/" \o certId])

\* IssueInsert for a handler that gives up when its client has gone.
IssueInsertUnlessAborted(r, storageOk) ==
    LET q == req[r]
        txHash == TxHash("issueCertificate", q.certId)
    IN
    /\ q.kind = "issue" /\ q.pc = "qr"
    /\ ~q.aborted
    /\ storageOk /\ q.certId \notin DOMAIN db
    /\ db' = [c \in DOMAIN db \cup {q.certId} |->
                 IF c = q.certId
                 THEN Row(q.certId, q.body, txHash, q.documentPath, q.file.originalname)
                 ELSE db[c]]
    /\ req' = [req EXCEPT ![r] = Done(q, IssueResponse(q.certId, txHash, q.documentPath))]
    /\ history' = [history EXCEPT !.issued = Told(history.issued, q.certId, q.input.body)]
    /\ UNCHANGED <<certificates, authorizedInstitutions, admin, uploads, now>>

\* The row is inserted and the response sent. The insert fails when the
\* storage fails and when a row with the certId is there (certId is UNIQUE).
IssueInsert(r, storageOk) ==
    LET q == req[r]
        txHash == TxHash("issueCertificate", q.certId)
    IN
    /\ q.kind = "issue" /\ q.pc = "qr"
    /\ IF ~storageOk \/ q.certId \in DOMAIN db
       THEN /\ IssueCatch(r, uploads, <<"SqliteError">>)
            /\ history' = [history EXCEPT !.unmirrored =
                              Told(history.unmirrored, q.certId, q.input.body)]
            /\ UNCHANGED db
       ELSE /\ db' = [c \in DOMAIN db \cup {q.certId} |->
                        IF c = q.certId
                        THEN Row(q.certId, q.body, txHash, q.documentPath,
                                 q.file.originalname)
                        ELSE db[c]]
            /\ req' = [req EXCEPT ![r] =
                          Done(q, IssueResponse(q.certId, txHash, q.documentPath))]
            /\ history' = [history EXCEPT !.issued = Told(history.issued, q.certId, q.input.body)]
            /\ UNCHANGED uploads
    /\ UNCHANGED <<certificates, authorizedInstitutions, admin, now>>

(***************************************************************************)
(* GET /api/certificates/verify/:certId                                    *)
(***************************************************************************)
VerifyReceive(r, certId) ==
    /\ req[r] = Idle
    /\ req' = [req EXCEPT ![r] =
                  [Idle EXCEPT !.kind = "verify", !.pc = "call", !.certId = certId,
                               !.input = [NoInput EXCEPT !.certId = certId]]]
    /\ UNCHANGED <<certificates, authorizedInstitutions, admin, db, uploads, now, history>>

\* A catch block that reports every error as an error.
VerifyCatchAlwaysError(message) == Json(500, [error |-> message])

\* A catch block that reports every error as not found.
VerifyCatchAlwaysNotFound(message) == Json(200, [exists |-> FALSE])

\* The catch block of the verify handler.
VerifyCatch(message) ==
    IF Includes(message, DoesNotExistMsg)
    THEN Json(200, [exists |-> FALSE])
    ELSE Json(500, [error |-> message])

\* contract.verifyCertificate(certId) settles and the row is read; the
\* handler then awaits generateQRCode.
VerifyCall(r, reachable) ==
    LET q == req[r]
        out == verifyCertificate(q.certId)
    IN
    /\ q.kind = "verify" /\ q.pc = "call"
    /\ IF ~reachable THEN req' = [req EXCEPT ![r] = Done(q, VerifyCatch(NetworkErrorMsg))]
       ELSE IF out.reverted
       THEN req' = [req EXCEPT ![r] = Done(q, VerifyCatch(CallException(out.reason)))]
       ELSE req' = [req EXCEPT ![r].pc = "read", ![r].result = out.returns,
                               ![r].rows = db]
    /\ UNCHANGED <<certificates, authorizedInstitutions, admin, db, uploads, now, history>>

\* A response that needs the LocalRecord.
VerifyResponseNeedsRow(certId, result, rows) ==
    IF certId \notin DOMAIN rows THEN Json(200, [exists |-> FALSE])
    ELSE Json(200, [exists |-> TRUE, studentName |-> result.studentName,
                    course |-> result.course, grade |-> result.grade,
                    issueDate |-> result.issueDate, isRevoked |-> result.isRevoked,
                    hasDocument |-> rows[certId].documentPath # Null,
                    txHash |-> rows[certId].txHash,
                    verifyUrl |-> "/verify/" \o certId])

\* A response that takes the text fields from the LocalRecord when there is one.
VerifyResponseFromRow(certId, result, rows) ==
    LET known == IF certId \in DOMAIN rows THEN rows[certId] ELSE result IN
    Json(200, [exists |-> TRUE, studentName |-> known.studentName,
               course |-> known.course, grade |-> known.grade,
               issueDate |-> result.issueDate, isRevoked |-> result.isRevoked,
               hasDocument |-> certId \in DOMAIN rows /\ rows[certId].documentPath # Null,
               txHash |-> IF certId \in DOMAIN rows THEN rows[certId].txHash ELSE Null,
               verifyUrl |-> "/verify/" \o certId])

VerifyResponse(certId, result, rows) ==
    Json(200, [exists |-> TRUE, studentName |-> result.studentName,
               course |-> result.course, grade |-> result.grade,
               issueDate |-> result.issueDate, isRevoked |-> result.isRevoked,
               hasDocument |-> certId \in DOMAIN rows /\ rows[certId].documentPath # Null,
               txHash |-> IF certId \in DOMAIN rows THEN rows[certId].txHash ELSE Null,
               verifyUrl |-> "/verify/" \o certId])

\* The response is sent.
VerifyRespond(r) ==
    LET q == req[r] IN
    /\ q.kind = "verify" /\ q.pc = "read"
    /\ req' = [req EXCEPT ![r] = Done(q, VerifyResponse(q.certId, q.result, q.rows))]
    /\ UNCHANGED <<certificates, authorizedInstitutions, admin, db, uploads, now, history>>

(***************************************************************************)
(* GET /api/certificates/:certId/pdf                                       *)
(***************************************************************************)
PdfReceive(r, certId) ==
    /\ req[r] = Idle
    /\ req' = [req EXCEPT ![r] =
                  [Idle EXCEPT !.kind = "pdf", !.pc = "call", !.certId = certId,
                               !.input = [NoInput EXCEPT !.certId = certId]]]
    /\ UNCHANGED <<certificates, authorizedInstitutions, admin, db, uploads, now, history>>

\* The catch block of the pdf handler.
PdfCatch(message) ==
    IF Includes(message, DoesNotExistMsg)
    THEN Json(404, [error |-> "Certificate not found"])
    ELSE Json(500, [error |-> message])

RevokedRefusal == Json(400, [error |-> "Certificate has been revoked"])

\* A pdf handler that does not look at result[4].
PdfCallUnchecked(r, reachable) ==
    LET q == req[r]
        out == verifyCertificate(q.certId)
    IN
    /\ q.kind = "pdf" /\ q.pc = "call"
    /\ IF ~reachable THEN req' = [req EXCEPT ![r] = Done(q, PdfCatch(NetworkErrorMsg))]
       ELSE IF out.reverted
       THEN req' = [req EXCEPT ![r] = Done(q, PdfCatch(CallException(out.reason)))]
       ELSE req' = [req EXCEPT ![r].pc = "generate", ![r].result = out.returns,
                               ![r].rows = db]
    /\ UNCHANGED <<certificates, authorizedInstitutions, admin, db, uploads, now, history>>

\* contract.verifyCertificate(certId) settles; a certificate that is not
\* revoked has its row read, and the handler awaits generateQRCode and
\* generateCertificatePDF.
PdfCall(r, reachable) ==
    LET q == req[r]
        out == verifyCertificate(q.certId)
    IN
    /\ q.kind = "pdf" /\ q.pc = "call"
    /\ IF ~reachable THEN req' = [req EXCEPT ![r] = Done(q, PdfCatch(NetworkErrorMsg))]
       ELSE IF out.reverted
       THEN req' = [req EXCEPT ![r] = Done(q, PdfCatch(CallException(out.reason)))]
       ELSE IF out.returns.isRevoked
       THEN req' = [req EXCEPT ![r] = Done(q, RevokedRefusal)]
       ELSE req' = [req EXCEPT ![r].pc = "generate", ![r].result = out.returns,
                               ![r].rows = db]
    /\ UNCHANGED <<certificates, authorizedInstitutions, admin, db, uploads, now, history>>

\* The certificate the pdf is drawn from, sent as an attachment.
PdfResponse(certId, result, rows) ==
    Json(200, [filename |-> certId \o "_certificate.pdf",
               certData |-> [certId |-> certId, studentName |-> result.studentName,
                             course |-> result.course, grade |-> result.grade,
                             issueDate |-> result.issueDate,
                             txHash |-> IF certId \in DOMAIN rows
                                        THEN rows[certId].txHash ELSE Undefined]])

\* The pdf is sent.
PdfRespond(r) ==
    LET q == req[r] IN
    /\ q.kind = "pdf" /\ q.pc = "generate"
    /\ req' = [req EXCEPT ![r] = Done(q, PdfResponse(q.certId, q.result, q.rows))]
    /\ UNCHANGED <<certificates, authorizedInstitutions, admin, db, uploads, now, history>>

(***************************************************************************)
(* GET /api/certificates/download/:certId                                  *)
(***************************************************************************)
DownloadReceive(r, certId) ==
    /\ req[r] = Idle
    /\ req' = [req EXCEPT ![r] =
                  [Idle EXCEPT !.kind = "download", !.pc = "call", !.certId = certId,
                               !.input = [NoInput EXCEPT !.certId = certId]]]
    /\ UNCHANGED <<certificates, authorizedInstitutions, admin, db, uploads, now, history>>

\* The catch block of the download handler.
DownloadCatch(message) ==
    IF Includes(message, DoesNotExistMsg)
    THEN Json(404, [error |-> "Certificate not found on blockchain"])
    ELSE Json(500, [error |-> message])

\* The extensions the documents of the model carry.
DocExts == {".pdf", ".png"}

\* path.extname(documentPath).toLowerCase(), for the names the backend gives
\* to documents.
DocExtname(documentPath) ==
    LET es == {e \in DocExts : \E c \in CertIds : documentPath = DocName(c, e)} IN
    IF es = {} THEN "" ELSE CHOOSE e \in es : TRUE

\* What the handler does once the ledger has said the certificate is there
\* and not revoked: the row, the file, and for a pdf the file's bytes, which
\* are read before the handler awaits the stamping.
DownloadLookup(q, result) ==
    IF q.certId \notin DOMAIN db \/ db[q.certId].documentPath = Null
    THEN Done(q, Json(404, [error |-> "No document found for this certificate"]))
    ELSE IF ~ExistsSync(uploads, db[q.certId].documentPath)
    THEN Done(q, Json(404, [error |-> "Document file not found"]))
    ELSE IF DocExtname(db[q.certId].documentPath) = ".pdf"
    THEN [q EXCEPT !.pc = "stamp", !.result = result,
                   !.documentPath = db[q.certId].documentPath,
                   !.bytes = uploads[db[q.certId].documentPath]]
    ELSE [q EXCEPT !.pc = "send", !.result = result,
                   !.documentPath = db[q.certId].documentPath]

\* A download handler that does not look at result[4].
DownloadCallUnchecked(r, reachable) ==
    LET q == req[r]
        out == verifyCertificate(q.certId)
    IN
    /\ q.kind = "download" /\ q.pc = "call"
    /\ IF ~reachable THEN req' = [req EXCEPT ![r] = Done(q, DownloadCatch(NetworkErrorMsg))]
       ELSE IF out.reverted
       THEN req' = [req EXCEPT ![r] = Done(q, DownloadCatch(CallException(out.reason)))]
       ELSE req' = [req EXCEPT ![r] = DownloadLookup(q, out.returns)]
    /\ UNCHANGED <<certificates, authorizedInstitutions, admin, db, uploads, now, history>>

\* contract.verifyCertificate(certId) settles, and the handler runs up to
\* its response or to its next await.
DownloadCall(r, reachable) ==
    LET q == req[r]
        out == verifyCertificate(q.certId)
    IN
    /\ q.kind = "download" /\ q.pc = "call"
    /\ IF ~reachable THEN req' = [req EXCEPT ![r] = Done(q, DownloadCatch(NetworkErrorMsg))]
       ELSE IF out.reverted
       THEN req' = [req EXCEPT ![r] = Done(q, DownloadCatch(CallException(out.reason)))]
       ELSE IF out.returns.isRevoked
       THEN req' = [req EXCEPT ![r] = Done(q, RevokedRefusal)]
       ELSE req' = [req EXCEPT ![r] = DownloadLookup(q, out.returns)]
    /\ UNCHANGED <<certificates, authorizedInstitutions, admin, db, uploads, now, history>>

\* errorHandler for an error that carries a status.
errorHandlerStatus(status, message) == Json(status, [error |-> message])

\* The stamped pdf is sent.
DownloadStamped(r) ==
    LET q == req[r] IN
    /\ q.kind = "download" /\ q.pc = "stamp"
    /\ req' = [req EXCEPT ![r] =
                  Done(q, Json(200, [filename |-> "stamped_" \o q.certId \o ".pdf",
                                     stamp |-> "VERIFIED: " \o q.certId,
                                     file |-> q.bytes]))]
    /\ UNCHANGED <<certificates, authorizedInstitutions, admin, db, uploads, now, history>>

\* res.sendFile(filePath) streams the file as it is by then; a file that has
\* gone is an error with status 404 for errorHandler.
DownloadSendFile(r) ==
    LET q == req[r] IN
    /\ q.kind = "download" /\ q.pc = "send"
    /\ req' = [req EXCEPT ![r] =
                  IF ExistsSync(uploads, q.documentPath)
                  THEN Done(q, Json(200, [filename |-> q.certId \o DocExtname(q.documentPath),
                                          stamp |-> "",
                                          file |-> uploads[q.documentPath]]))
                  ELSE Done(q, errorHandlerStatus(404, <<"ENOENT">>))]
    /\ UNCHANGED <<certificates, authorizedInstitutions, admin, db, uploads, now, history>>

(***************************************************************************)
(* POST /api/admin/certificates/:certId/revoke                             *)
(***************************************************************************)
RevokeReceive(r, token, certId) ==
    /\ req[r] = Idle
    /\ req' = [req EXCEPT ![r] =
                  IF authenticateToken(token) # 0
                  THEN Done([Idle EXCEPT !.kind = "revoke", !.certId = certId],
                            AuthError(authenticateToken(token)))
                  ELSE [Idle EXCEPT !.kind = "revoke", !.pc = "check", !.certId = certId,
                                    !.input = [NoInput EXCEPT !.token = token,
                                                              !.certId = certId]]]
    /\ UNCHANGED <<certificates, authorizedInstitutions, admin, db, uploads, now, history>>

\* A catch block that does not look for "Already revoked".
RevokeCatchGeneric(message) ==
    IF Includes(message, DoesNotExistMsg)
    THEN Json(404, [error |-> "Certificate not found on blockchain"])
    ELSE Json(500, [error |-> message])

\* The catch block of the revoke handler.
RevokeCatch(message) ==
    IF Includes(message, DoesNotExistMsg)
    THEN Json(404, [error |-> "Certificate not found on blockchain"])
    ELSE IF Includes(message, AlreadyRevokedMsg)
    THEN Json(400, [error |-> "Certificate is already revoked"])
    ELSE Json(500, [error |-> message])

\* contract.verifyCertificate(certId) settles.
RevokeCheck(r, reachable) ==
    LET q == req[r]
        out == verifyCertificate(q.certId)
    IN
    /\ q.kind = "revoke" /\ q.pc = "check"
    /\ IF ~reachable THEN req' = [req EXCEPT ![r] = Done(q, RevokeCatch(NetworkErrorMsg))]
       ELSE IF out.reverted
       THEN req' = [req EXCEPT ![r] = Done(q, RevokeCatch(CallException(out.reason)))]
       ELSE req' = [req EXCEPT ![r].pc = "estimate", ![r].result = out.returns]
    /\ UNCHANGED <<certificates, authorizedInstitutions, admin, db, uploads, now, history>>

\* contract.revokeCertificate(certId) settles: simulated, then taken.
RevokeEstimate(r, reachable) ==
    LET q == req[r]
        out == revokeCertificate(Wallet, q.certId)
    IN
    /\ q.kind = "revoke" /\ q.pc = "estimate"
    /\ IF ~reachable THEN req' = [req EXCEPT ![r] = Done(q, RevokeCatch(NetworkErrorMsg))]
       ELSE IF out.reverted
       THEN req' = [req EXCEPT ![r] = Done(q, RevokeCatch(CallException(out.reason)))]
       ELSE req' = [req EXCEPT ![r].pc = "wait"]
    /\ UNCHANGED <<certificates, authorizedInstitutions, admin, db, uploads, now, history>>

\* The transaction is mined, tx.wait() settles and the response is sent.
RevokeMined(r) ==
    LET q == req[r]
        out == revokeCertificate(Wallet, q.certId)
    IN
    /\ q.kind = "revoke" /\ q.pc = "wait"
    /\ IF out.reverted
       THEN /\ req' = [req EXCEPT ![r] = Done(q, RevokeCatch(TransactionRevertedMsg))]
            /\ UNCHANGED <<certificates, history>>
       ELSE /\ certificates' = out.certificates
            /\ req' = [req EXCEPT ![r] =
                          Done(q, Json(200, [success |-> TRUE,
                                             txHash |-> TxHash("revokeCertificate", q.certId)]))]
            /\ history' = [history EXCEPT !.revoked = Told(history.revoked, q.certId, q.result)]
    /\ UNCHANGED <<authorizedInstitutions, admin, db, uploads, now>>

(***************************************************************************)
(* PUT /api/admin/certificates/:certId                                     *)
(***************************************************************************)
\* authenticateToken, then multer stores the uploaded file.
UpdateReceive(r, token, certId, notes, originalname) ==
    /\ req[r] = Idle
    /\ IF authenticateToken(token) # 0
       THEN /\ req' = [req EXCEPT ![r] =
                          Done([Idle EXCEPT !.kind = "update", !.certId = certId],
                               AuthError(authenticateToken(token)))]
            /\ UNCHANGED uploads
       ELSE /\ uploads' = MulterStore(originalname)
            /\ req' = [req EXCEPT ![r] =
                          [Idle EXCEPT !.kind = "update", !.pc = "handle", !.certId = certId,
                                       !.input = [NoInput EXCEPT !.token = token,
                                                                 !.certId = certId,
                                                                 !.notes = notes,
                                                                 !.originalname = originalname],
                                       !.file = MulterFile(originalname)]]
    /\ UNCHANGED <<certificates, authorizedInstitutions, admin, db, now, history>>

\* A handler that leaves the old document.
UpdateUnlinkedNothing(q) == uploads

\* The files after the old document has been removed.
UpdateUnlinked(q) ==
    IF db[q.certId].documentPath # Null /\ ExistsSync(uploads, db[q.certId].documentPath)
    THEN UnlinkSync(uploads, db[q.certId].documentPath)
    ELSE uploads

UpdatedRow(q) ==
    LET noted == IF q.input.notes # Undefined
                 THEN [db[q.certId] EXCEPT !.notes = q.input.notes]
                 ELSE db[q.certId]
    IN IF q.file # NoUpload
       THEN [noted EXCEPT !.documentPath = DocName(q.certId, Extname(q.file.originalname)),
                          !.documentOriginalName = q.file.originalname]
       ELSE noted

\* The handler: it has no await and runs in one step.
UpdateHandle(r) ==
    LET q == req[r] IN
    /\ q.kind = "update" /\ q.pc = "handle"
    /\ IF q.certId \notin DOMAIN db
       THEN /\ req' = [req EXCEPT ![r] = Done(q, Json(404, [error |-> "Certificate not found"]))]
            /\ UNCHANGED <<db, uploads>>
       ELSE IF q.file # NoUpload /\ ~ExistsSync(UpdateUnlinked(q), q.file.path)
       THEN /\ uploads' = UpdateUnlinked(q)
            /\ req' = [req EXCEPT ![r] = Done(q, Json(500, [error |-> <<"ENOENT">>]))]
            /\ UNCHANGED db
       ELSE /\ uploads' = IF q.file # NoUpload
                          THEN RenameSync(UpdateUnlinked(q), q.file.path,
                                          DocName(q.certId, Extname(q.file.originalname)))
                          ELSE uploads
            /\ db' = [db EXCEPT ![q.certId] = UpdatedRow(q)]
            /\ req' = [req EXCEPT ![r] =
                          Done(q, Json(200, [success |-> TRUE, certificate |-> UpdatedRow(q)]))]
    /\ UNCHANGED <<certificates, authorizedInstitutions, admin, now, history>>

(***************************************************************************)
(* DELETE /api/admin/certificates/:certId                                  *)
(***************************************************************************)
\* A handler that deletes the row and leaves the document.
DeleteHandleKeepsFile(r, token, certId) ==
    LET q == [Idle EXCEPT !.kind = "delete", !.certId = certId] IN
    /\ req[r] = Idle
    /\ IF authenticateToken(token) # 0
       THEN /\ req' = [req EXCEPT ![r] = Done(q, AuthError(authenticateToken(token)))]
            /\ UNCHANGED db
       ELSE IF certId \notin DOMAIN db
       THEN /\ req' = [req EXCEPT ![r] = Done(q, Json(404, [error |-> "Certificate not found"]))]
            /\ UNCHANGED db
       ELSE /\ db' = [c \in DOMAIN db \ {certId} |-> db[c]]
            /\ req' = [req EXCEPT ![r] = Done(q, Json(200, [success |-> TRUE]))]
    /\ UNCHANGED <<certificates, authorizedInstitutions, admin, uploads, now, history>>

\* authenticateToken and the handler, which has no await.
DeleteHandle(r, token, certId) ==
    LET q == [Idle EXCEPT !.kind = "delete", !.certId = certId] IN
    /\ req[r] = Idle
    /\ IF authenticateToken(token) # 0
       THEN /\ req' = [req EXCEPT ![r] = Done(q, AuthError(authenticateToken(token)))]
            /\ UNCHANGED <<db, uploads>>
       ELSE IF certId \notin DOMAIN db
       THEN /\ req' = [req EXCEPT ![r] = Done(q, Json(404, [error |-> "Certificate not found"]))]
            /\ UNCHANGED <<db, uploads>>
       ELSE /\ uploads' = IF db[certId].documentPath # Null
                             /\ ExistsSync(uploads, db[certId].documentPath)
                          THEN UnlinkSync(uploads, db[certId].documentPath)
                          ELSE uploads
            /\ db' = [c \in DOMAIN db \ {certId} |-> db[c]]
            /\ req' = [req EXCEPT ![r] = Done(q, Json(200, [success |-> TRUE]))]
    /\ UNCHANGED <<certificates, authorizedInstitutions, admin, now, history>>

(***************************************************************************)
(* GET /api/admin/certificates and the legacy GET /api/certificates         *)
(***************************************************************************)
\* authenticateToken, then the handler reads all rows and calls
\* contract.verifyCertificate for each of them.
ListReceive(r, token) ==
    /\ req[r] = Idle
    /\ req' = [req EXCEPT ![r] =
                  IF authenticateToken(token) # 0
                  THEN Done([Idle EXCEPT !.kind = "list"], AuthError(authenticateToken(token)))
                  ELSE [Idle EXCEPT !.kind = "list", !.pc = "enrich", !.rows = db,
                                    !.input = [NoInput EXCEPT !.token = token]]]
    /\ UNCHANGED <<certificates, authorizedInstitutions, admin, db, uploads, now, history>>

\* A row with its blockchainData: what verifyCertificate returned, or, when
\* the call failed, null (fetched is false).
Enriched(row, failed) ==
    LET out == verifyCertificate(row.certId) IN
    [cert |-> row,
     fetched |-> ~failed /\ ~out.reverted,
     blockchainData |-> IF failed THEN ZeroCertificate ELSE out.returns]

\* The calls settle, those of the rows in unreachable with an error, and the
\* response is sent.
ListRespond(r, unreachable) ==
    LET q == req[r] IN
    /\ q.kind = "list" /\ q.pc = "enrich"
    /\ unreachable \subseteq DOMAIN q.rows
    /\ req' = [req EXCEPT ![r] =
                  Done(q, Json(200, [certificates |->
                                        [c \in DOMAIN q.rows |->
                                            Enriched(q.rows[c], c \in unreachable)]]))]
    /\ UNCHANGED <<certificates, authorizedInstitutions, admin, db, uploads, now, history>>

\* The legacy endpoint: no middleware, and a handler without an await. The
\* token the client sends is not looked at.
LegacyList(r, token) ==
    /\ req[r] = Idle
    /\ req' = [req EXCEPT ![r] =
                  Done([Idle EXCEPT !.kind = "legacy"], Json(200, [certificates |-> db]))]
    /\ UNCHANGED <<certificates, authorizedInstitutions, admin, db, uploads, now, history>>

\* The admin table of the frontend: the status badge of a listed row.
\* blockchainData?.isRevoked of a null blockchainData is undefined.
StatusBadge(item) ==
    IF item.fetched /\ item.blockchainData.isRevoked THEN "Revoked" ELSE "Valid"

\* The client has its answer and the connection is free again.
Retire(r) ==
    /\ req[r].pc = "done"
    /\ req' = [req EXCEPT ![r] = Idle]
    /\ UNCHANGED <<certificates, authorizedInstitutions, admin, db, uploads, now, history>>

\* Time passes.
Tick ==
    /\ now < MaxClock
    /\ now' = now + 1
    /\ UNCHANGED <<certificates, authorizedInstitutions, admin, db, uploads, req, history>>

\* The state after the contract's constructor has run and the server has
\* started on an empty database and an empty uploads directory.
Init ==
    /\ certificates = [c \in CertIds |-> ZeroCertificate]
    /\ admin = Deployer
    /\ authorizedInstitutions = [a \in Addresses |-> a = Deployer]
    /\ db = <<>>
    /\ uploads = <<>>
    /\ now = 1
    /\ req = [r \in Reqs |-> Idle]
    /\ history = [issued |-> <<>>, revoked |-> <<>>, unmirrored |-> <<>>]

\* The text fields a third party writes.
ThirdPartyText == {<<"E", "v", "e">>, <<"B">>}

IssuableIds == CertIds \ {NeverIssuedId}

\* Transactions are mined one at a time: one client suffices to send them.
LedgerReqs == {"r1"}

LedgerNext ==
    \/ \E r \in LedgerReqs, s \in Addresses, i \in Addresses : CallAddInstitution(r, s, i)
    \/ \E r \in LedgerReqs, s \in Addresses, c \in IssuableIds, t \in ThirdPartyText :
          CallIssueCertificate(r, s, c, t)
    \/ \E r \in LedgerReqs, s \in Addresses, c \in CertIds : CallRevokeCertificate(r, s, c)
    \/ \E r \in LedgerReqs : Retire(r)
    \/ Tick

LedgerSpec == Init /\ [][LedgerNext]_vars
\* The bodies clients post to the issue route.
PaddedBody == [studentName |-> <<" ", "A", "d", "a", " ">>, course |-> <<"C", "S">>,
               grade |-> <<"A", " ">>]
PlainBody == [studentName |-> <<"B", "o">>, course |-> <<"M", "L">>, grade |-> <<"B">>]
ShortNameBody == [PlainBody EXCEPT !.studentName = <<" ", "B", " ">>]

Tokens == {"valid", "none", "forged"}

\* What clients post to the issue route (body, uploaded file) and put to the
\* update route (notes, uploaded file).
IssuePosts == {<<PaddedBody, <<>>>>, <<ShortNameBody, <<>>>>}

UpdatePuts == {<<<<"n">>, <<>>>>}

\* One client at a time talks to the backend or to the contract.
Clients == {"r1"}

Next ==
    \/ \E r \in Clients : CallAddInstitution(r, Deployer, Wallet)
    \/ \E r \in Clients, c \in IssuableIds : CallIssueCertificate(r, Deployer, c, <<"E", "v", "e">>)
    \/ \E r \in Clients, p \in IssuePosts : IssueReceive(r, p[1], p[2])
    \/ \E r \in Clients : IssueHandle(r)
    \/ \E r \in Clients, reachable \in BOOLEAN : IssueEstimate(r, reachable)
    \/ \E r \in Clients : IssueMined(r)
    \/ \E r \in Clients : IssueRename(r)
    \/ \E r \in Clients, ok \in BOOLEAN : IssueInsert(r, ok)
    \/ \E r \in Clients, c \in CertIds : VerifyReceive(r, c)
    \/ \E r \in Clients, reachable \in BOOLEAN : VerifyCall(r, reachable)
    \/ \E r \in Clients : VerifyRespond(r)
    \/ \E r \in Clients, t \in Tokens, c \in CertIds : RevokeReceive(r, t, c)
    \/ \E r \in Clients, reachable \in BOOLEAN : RevokeCheck(r, reachable)
    \/ \E r \in Clients, reachable \in BOOLEAN : RevokeEstimate(r, reachable)
    \/ \E r \in Clients : RevokeMined(r)
    \/ \E r \in Clients, t \in Tokens, c \in IssuableIds, p \in UpdatePuts :
          UpdateReceive(r, t, c, p[1], p[2])
    \/ \E r \in Clients : UpdateHandle(r)
    \/ \E r \in Clients, t \in Tokens, c \in IssuableIds : DeleteHandle(r, t, c)
    \/ \E r \in Clients : Retire(r)
    \/ Tick

Spec == Init /\ [][Next]_vars

\* Issuance alone, with uploads, for two clients at a time and a storage
\* that does not fail.
ConcurrentPosts ==
    {<<PaddedBody, <<"a", ".pdf">>>>, <<PlainBody, <<"b", ".pdf">>>>, <<ShortNameBody, <<>>>>}

IssueNext ==
    \/ \E r \in Reqs : CallAddInstitution(r, Deployer, Wallet)
    \/ \E r \in Reqs, p \in ConcurrentPosts : IssueReceive(r, p[1], p[2])
    \/ \E r \in Reqs : IssueHandle(r)
    \/ \E r \in Reqs, reachable \in BOOLEAN : IssueEstimate(r, reachable)
    \/ \E r \in Reqs : IssueMined(r)
    \/ \E r \in Reqs : IssueRename(r)
    \/ \E r \in Reqs : IssueInsert(r, TRUE)
    \/ \E r \in Reqs : Retire(r)
    \/ Tick

IssueSpec == Init /\ [][IssueNext]_vars

\* Issuance with documents, verification, revocation and deletion: one
\* client at a time, an admin's token, a reachable ledger, and a storage that
\* may fail at the insert.
DocPosts == {<<PaddedBody, <<"a", ".pdf">>>>, <<PlainBody, <<>>>>}

DocNext ==
    \/ \E r \in Clients : CallAddInstitution(r, Deployer, Wallet)
    \/ \E r \in Clients, p \in DocPosts : IssueReceive(r, p[1], p[2])
    \/ \E r \in Clients : IssueHandle(r)
    \/ \E r \in Clients : IssueEstimate(r, TRUE)
    \/ \E r \in Clients : IssueMined(r)
    \/ \E r \in Clients : IssueRename(r)
    \/ \E r \in Clients, ok \in BOOLEAN : IssueInsert(r, ok)
    \/ \E r \in Clients, c \in CertIds : VerifyReceive(r, c)
    \/ \E r \in Clients : VerifyCall(r, TRUE)
    \/ \E r \in Clients : VerifyRespond(r)
    \/ \E r \in Clients, c \in IssuableIds : RevokeReceive(r, "valid", c)
    \/ \E r \in Clients : RevokeCheck(r, TRUE)
    \/ \E r \in Clients : RevokeEstimate(r, TRUE)
    \/ \E r \in Clients : RevokeMined(r)
    \/ \E r \in Clients, c \in IssuableIds : DeleteHandle(r, "valid", c)
    \/ \E r \in Clients : Retire(r)
    \/ Tick

DocSpec == Init /\ [][DocNext]_vars

\* The two file endpoints after issuance, revocation and deletion: one
\* client at a time, an admin's token, a reachable ledger and a storage that
\* does not fail.
DownloadPosts == {<<PaddedBody, <<"a", ".pdf">>>>, <<PlainBody, <<"b", ".png">>>>,
                  <<PlainBody, <<>>>>}

DownloadNext ==
    \/ \E r \in Clients : CallAddInstitution(r, Deployer, Wallet)
    \/ \E r \in Clients, p \in DownloadPosts : IssueReceive(r, p[1], p[2])
    \/ \E r \in Clients : IssueHandle(r)
    \/ \E r \in Clients : IssueEstimate(r, TRUE)
    \/ \E r \in Clients : IssueMined(r)
    \/ \E r \in Clients : IssueRename(r)
    \/ \E r \in Clients : IssueInsert(r, TRUE)
    \/ \E r \in Clients, c \in CertIds : PdfReceive(r, c)
    \/ \E r \in Clients : PdfCall(r, TRUE)
    \/ \E r \in Clients : PdfRespond(r)
    \/ \E r \in Clients, c \in CertIds : DownloadReceive(r, c)
    \/ \E r \in Clients : DownloadCall(r, TRUE)
    \/ \E r \in Clients : DownloadStamped(r)
    \/ \E r \in Clients : DownloadSendFile(r)
    \/ \E r \in Clients, c \in IssuableIds : RevokeReceive(r, "valid", c)
    \/ \E r \in Clients : RevokeCheck(r, TRUE)
    \/ \E r \in Clients : RevokeEstimate(r, TRUE)
    \/ \E r \in Clients : RevokeMined(r)
    \/ \E r \in Clients, c \in IssuableIds : DeleteHandle(r, "valid", c)
    \/ \E r \in Clients : Retire(r)
    \/ Tick

DownloadSpec == Init /\ [][DownloadNext]_vars

\* The admin routes, called with and without an admin's token, on
\* certificates issued with a document: one client at a time, a reachable
\* ledger, a storage that does not fail.
AdminPosts == {<<PaddedBody, <<"a", ".pdf">>>>}

AdminPuts == {<<<<"n">>, <<"c", ".png">>>>}

AdminNext ==
    \/ \E r \in Clients : CallAddInstitution(r, Deployer, Wallet)
    \/ \E r \in Clients, p \in AdminPosts : IssueReceive(r, p[1], p[2])
    \/ \E r \in Clients : IssueHandle(r)
    \/ \E r \in Clients : IssueEstimate(r, TRUE)
    \/ \E r \in Clients : IssueMined(r)
    \/ \E r \in Clients : IssueRename(r)
    \/ \E r \in Clients : IssueInsert(r, TRUE)
    \/ \E r \in Clients, t \in Tokens, c \in IssuableIds : RevokeReceive(r, t, c)
    \/ \E r \in Clients : RevokeCheck(r, TRUE)
    \/ \E r \in Clients : RevokeEstimate(r, TRUE)
    \/ \E r \in Clients : RevokeMined(r)
    \/ \E r \in Clients, t \in Tokens, c \in IssuableIds, p \in AdminPuts :
          UpdateReceive(r, t, c, p[1], p[2])
    \/ \E r \in Clients : UpdateHandle(r)
    \/ \E r \in Clients, t \in Tokens, c \in IssuableIds : DeleteHandle(r, t, c)
    \/ \E r \in Clients, t \in Tokens : ListReceive(r, t)
    \/ \E r \in Clients, u \in SUBSET IssuableIds : ListRespond(r, u)
    \/ \E r \in Clients, t \in Tokens : LegacyList(r, t)
    \/ \E r \in Clients : Retire(r)
    \/ Tick

AdminSpec == Init /\ [][AdminNext]_vars

\* Uploads in flight at the same time: one client issues certificates with a
\* document while two clients, the issuing one among them, update and delete
\* LocalRecords with an admin's token. The ledger is reachable and the
\* storage does not fail.
UploadPosts == {<<PaddedBody, <<"a", ".pdf">>>>}

UploadPuts == {<<<<"n">>, <<"c", ".png">>>>}

Issuers == {"r1"}

UploadNext ==
    \/ \E r \in Issuers : CallAddInstitution(r, Deployer, Wallet)
    \/ \E r \in Issuers, p \in UploadPosts : IssueReceive(r, p[1], p[2])
    \/ \E r \in Issuers : IssueHandle(r)
    \/ \E r \in Issuers : IssueEstimate(r, TRUE)
    \/ \E r \in Issuers : IssueMined(r)
    \/ \E r \in Issuers : IssueRename(r)
    \/ \E r \in Issuers : IssueInsert(r, TRUE)
    \/ \E r \in Reqs, c \in IssuableIds, p \in UploadPuts :
          UpdateReceive(r, "valid", c, p[1], p[2])
    \/ \E r \in Reqs : UpdateHandle(r)
    \/ \E r \in Reqs, c \in IssuableIds : DeleteHandle(r, "valid", c)
    \/ \E r \in Reqs : Retire(r)
    \/ Tick

UploadSpec == Init /\ [][UploadNext]_vars

\* Updates in flight at the same time, of certificates that have a
\* LocalRecord: one client issues certificates with a document while two
\* clients, the issuing one among them, put a document with an admin's token.
UpdateNext ==
    \/ \E r \in Issuers : CallAddInstitution(r, Deployer, Wallet)
    \/ \E r \in Issuers, p \in UploadPosts : IssueReceive(r, p[1], p[2])
    \/ \E r \in Issuers : IssueHandle(r)
    \/ \E r \in Issuers : IssueEstimate(r, TRUE)
    \/ \E r \in Issuers : IssueMined(r)
    \/ \E r \in Issuers : IssueRename(r)
    \/ \E r \in Issuers : IssueInsert(r, TRUE)
    \/ \E r \in Reqs, c \in DOMAIN db, p \in UploadPuts :
          UpdateReceive(r, "valid", c, p[1], p[2])
    \/ \E r \in Reqs : UpdateHandle(r)
    \/ \E r \in Reqs : Retire(r)
    \/ Tick

UpdateSpec == Init /\ [][UpdateNext]_vars

\* Issuance with clients that disconnect: two issuances in flight, of which
\* the first client's carry a document; a reachable ledger and a storage that
\* does not fail. The event loop runs a handler on when what it awaits has
\* settled: the continuation after tx.wait() and the one after
\* generateQRCode are taken in the end.
Bystanders == Reqs \ Issuers

LiveNext ==
    \/ \E r \in Issuers : CallAddInstitution(r, Deployer, Wallet)
    \/ \E r \in Issuers : IssueReceive(r, PaddedBody, <<"a", ".pdf">>)
    \/ \E r \in Bystanders : IssueReceive(r, PlainBody, <<>>)
    \/ \E r \in Reqs : IssueHandle(r)
    \/ \E r \in Reqs : IssueEstimate(r, TRUE)
    \/ \E r \in Reqs : IssueMined(r)
    \/ \E r \in Reqs : ClientDisconnects(r)
    \/ \E r \in Reqs : IssueRename(r)
    \/ \E r \in Reqs : IssueInsert(r, TRUE)
    \/ \E r \in Reqs : Retire(r)
    \/ Tick

LiveSpec ==
    /\ Init /\ [][LiveNext]_vars
    /\ \A r \in Reqs : WF_vars(IssueRename(r)) /\ WF_vars(IssueInsert(r, TRUE))

\* A race of revocations: each of two clients posts one revoke with an
\* admin's token, for a certificate the deployer has issued, once the wallet
\* has been authorized; the ledger is reachable.
RevokeRaceNext ==
    \/ \E r \in Reqs : CallAddInstitution(r, Deployer, Wallet)
    \/ \E r \in Reqs, c \in IssuableIds : CallIssueCertificate(r, Deployer, c, <<"E", "v", "e">>)
    \/ \E r \in Reqs : req[r].kind \in {"addInstitution", "issueCertificate"} /\ Retire(r)
    \/ \E r \in Reqs, c \in IssuableIds : RevokeReceive(r, "valid", c)
    \/ \E r \in Reqs : RevokeCheck(r, TRUE)
    \/ \E r \in Reqs : RevokeEstimate(r, TRUE)
    \/ \E r \in Reqs : RevokeMined(r)
    \/ Tick

RevokeRaceSpec == Init /\ [][RevokeRaceNext]_vars

\* The two stores under interleaving: one client issues certificates while
\* two clients, the issuing one among them, revoke, update the notes of and
\* delete certificates with an admin's token. The ledger may be out of reach
\* of an issuance; the storage does not fail.
MirrorPuts == {<<<<"n">>, <<>>>>}

MirrorNext ==
    \/ \E r \in Issuers : CallAddInstitution(r, Deployer, Wallet)
    \/ \E r \in Issuers : IssueReceive(r, PlainBody, <<>>)
    \/ \E r \in Issuers : IssueHandle(r)
    \/ \E r \in Issuers, reachable \in BOOLEAN : IssueEstimate(r, reachable)
    \/ \E r \in Issuers : IssueMined(r)
    \/ \E r \in Issuers : IssueRename(r)
    \/ \E r \in Issuers : IssueInsert(r, TRUE)
    \/ \E r \in Reqs, c \in IssuableIds : RevokeReceive(r, "valid", c)
    \/ \E r \in Reqs : RevokeCheck(r, TRUE)
    \/ \E r \in Reqs : RevokeEstimate(r, TRUE)
    \/ \E r \in Reqs : RevokeMined(r)
    \/ \E r \in Reqs, c \in IssuableIds, p \in MirrorPuts :
          UpdateReceive(r, "valid", c, p[1], p[2])
    \/ \E r \in Reqs : UpdateHandle(r)
    \/ \E r \in Reqs, c \in IssuableIds : DeleteHandle(r, "valid", c)
    \/ \E r \in Reqs : Retire(r)
    \/ Tick

MirrorSpec == Init /\ [][MirrorNext]_vars

\* Issuance with bodies at and beyond the bounds of the validators, with and
\* without a document: one client at a time, a reachable ledger, a storage
\* that does not fail.
Repeat(ch, n) == [i \in 1..n |-> ch]

BoundaryBodies ==
    {[studentName |-> Repeat("n", NameMin), course |-> Repeat("c", CourseMax),
      grade |-> Repeat("g", GradeMax)],
     [studentName |-> <<" ">> \o Repeat("n", NameMax) \o <<" ">>,
      course |-> Repeat("c", CourseMin), grade |-> Repeat("g", GradeMin)],
     [PlainBody EXCEPT !.studentName = Undefined],
     [PlainBody EXCEPT !.studentName = <<" ", "B", " ">>],
     [PlainBody EXCEPT !.studentName = Repeat("n", NameMax + 1)],
     [PlainBody EXCEPT !.course = Undefined],
     [PlainBody EXCEPT !.course = Repeat("c", CourseMin - 1)],
     [PlainBody EXCEPT !.course = Repeat("c", CourseMax + 1)],
     [PlainBody EXCEPT !.grade = Undefined],
     [PlainBody EXCEPT !.grade = <<" ">>],
     [PlainBody EXCEPT !.grade = Repeat("g", GradeMax + 1)]}

BoundaryPosts == BoundaryBodies \X {<<>>, <<"a", ".pdf">>}

ValidationNext ==
    \/ \E r \in Clients : CallAddInstitution(r, Deployer, Wallet)
    \/ \E r \in Clients, p \in BoundaryPosts : IssueReceive(r, p[1], p[2])
    \/ \E r \in Clients : IssueHandle(r)
    \/ \E r \in Clients : IssueEstimate(r, TRUE)
    \/ \E r \in Clients : IssueMined(r)
    \/ \E r \in Clients : IssueRename(r)
    \/ \E r \in Clients : IssueInsert(r, TRUE)
    \/ \E r \in Clients : Retire(r)
    \/ Tick

ValidationSpec == Init /\ [][ValidationNext]_vars

\* A race: each of two clients posts one issuance, with the ledger reachable
\* and a storage that does not fail, once the wallet has been authorized.
RaceNext ==
    \/ \E r \in Reqs : CallAddInstitution(r, Deployer, Wallet)
    \/ \E r \in Reqs : req[r].kind = "addInstitution" /\ Retire(r)
    \/ \E r \in Reqs, p \in ConcurrentPosts : IssueReceive(r, p[1], p[2])
    \/ \E r \in Reqs : IssueHandle(r)
    \/ \E r \in Reqs : IssueEstimate(r, TRUE)
    \/ \E r \in Reqs : IssueMined(r)
    \/ \E r \in Reqs : IssueRename(r)
    \/ \E r \in Reqs : IssueInsert(r, TRUE)
    \/ Tick

RaceSpec == Init /\ [][RaceNext]_vars
(***************************************************************************)
(* Properties of the contract.                                             *)
(***************************************************************************)
\* A client's transaction of the given kind settles in this step.
Settles(r, fn) == req[r] = Idle /\ req'[r].pc = "done" /\ req'[r].kind = fn

\* C1: issueCertificate called by an authorized account for a certId that
\* has a record reverts with "Already exists" and leaves the contract's
\* storage, that record included, as it was.
C1_DuplicateIssueReverts ==
    [][\A r \in Reqs :
          (/\ Settles(r, "issueCertificate")
           /\ authorizedInstitutions[req'[r].response.body.sender]
           /\ certificates[req'[r].certId].exists)
          => /\ req'[r].response.body.reverted
             /\ req'[r].response.body.reason = AlreadyExistsMsg
             /\ certificates' = certificates
             /\ authorizedInstitutions' = authorizedInstitutions
             /\ admin' = admin]_vars

C1_Witness ==
    \E r \in Reqs :
        /\ req[r].kind = "issueCertificate" /\ req[r].pc = "done"
        /\ req[r].response.body.reason = AlreadyExistsMsg
        /\ certificates[req[r].certId].exists

\* C2: revokeCertificate reverts when certId has no record and when its
\* record is revoked already, and the contract's storage is left as it was;
\* an authorized caller is told which of the two it was.
C2_RevokeRevertsOnMissingOrRevoked ==
    [][\A r \in Reqs :
          (/\ Settles(r, "revokeCertificate")
           /\ (~certificates[req'[r].certId].exists \/ certificates[req'[r].certId].isRevoked))
          => /\ req'[r].response.body.reverted
             /\ certificates' = certificates
             /\ authorizedInstitutions' = authorizedInstitutions
             /\ admin' = admin
             /\ authorizedInstitutions[req'[r].response.body.sender]
                => req'[r].response.body.reason =
                      IF certificates[req'[r].certId].exists
                      THEN AlreadyRevokedMsg ELSE DoesNotExistMsg]_vars

C2_Witness ==
    \E r \in Reqs :
        /\ req[r].kind = "revokeCertificate" /\ req[r].pc = "done"
        /\ req[r].response.body.reason = AlreadyRevokedMsg
        /\ certificates[req[r].certId].isRevoked
        /\ ~certificates[NeverIssuedId].exists

\* C3: revocation is one-way: a record that is revoked is revoked after
\* every step of the contract and of the backend.
C3_RevocationIsOneWay ==
    [][\A c \in CertIds : certificates[c].isRevoked => certificates'[c].isRevoked]_vars

\* A revoked record, and a request for the same certId served since.
C3_Witness ==
    \E r \in Reqs, c \in CertIds :
        /\ certificates[c].isRevoked
        /\ req[r].pc = "done" /\ req[r].certId = c
        /\ req[r].kind \in {"issue", "issueCertificate", "update", "delete"}

\* C4: records of the ledger are never destroyed: a record that exists
\* exists after every step of the contract and of the backend.
C4_RecordsAreNeverDestroyed ==
    [][\A c \in CertIds : certificates[c].exists => certificates'[c].exists]_vars

\* The admin has deleted the LocalRecord of a certificate of the ledger.
C4_Witness ==
    \E r \in Reqs :
        /\ req[r].kind = "delete" /\ req[r].pc = "done" /\ req[r].response.status = 200
        /\ certificates[req[r].certId].exists
        /\ req[r].certId \notin DOMAIN db

\* C5: the studentName, course, grade and issueDate of a record never
\* change, and a step that changes a record is a revocation: it sets the
\* isRevoked flag of that one record and changes no other record.
C5_FieldsAreSetOnce ==
    [][\A c \in CertIds :
          certificates[c].exists
          => /\ certificates'[c].studentName = certificates[c].studentName
             /\ certificates'[c].course = certificates[c].course
             /\ certificates'[c].grade = certificates[c].grade
             /\ certificates'[c].issueDate = certificates[c].issueDate
             /\ certificates'[c] # certificates[c]
                => /\ certificates'[c] = [certificates[c] EXCEPT !.isRevoked = TRUE]
                   /\ \A d \in CertIds \ {c} : certificates'[d] = certificates[d]
                   /\ \E r \in Reqs : Settles(r, "revokeCertificate") /\ req'[r].certId = c]_vars

\* A record revoked at a time later than its issueDate, beside another record.
C5_Witness ==
    \E c, d \in CertIds :
        /\ c # d
        /\ certificates[c].isRevoked /\ certificates[c].issueDate < now
        /\ certificates[d].exists
        /\ \E r \in Reqs : req[r].kind = "revokeCertificate" /\ req[r].certId = c
                            /\ ~req[r].response.body.reverted
(***************************************************************************)
(* Properties of the backend's routes.                                     *)
(***************************************************************************)
\* The response of a verify or revoke handler whose call could not reach
\* the ledger.
Unreachable(response) ==
    response.status = 500 /\ response.body.error = NetworkErrorMsg

Answered(r, kind) == req[r].kind = kind /\ req[r].pc = "done"

\* C6: a certId that an issue request has returned with success verifies,
\* when the ledger is reachable, as existing, with the studentName, course
\* and grade that were posted, trimmed, and as not revoked for as long as
\* nobody has revoked it.
C6_IssuedCertificateVerifies ==
    \A r \in Clients :
        (/\ Answered(r, "verify")
         /\ req[r].certId \in DOMAIN history.issued
         /\ ~Unreachable(req[r].response))
        => /\ req[r].response.status = 200
           /\ req[r].response.body.exists
           /\ req[r].response.body.studentName = Trim(history.issued[req[r].certId].studentName)
           /\ req[r].response.body.course = Trim(history.issued[req[r].certId].course)
           /\ req[r].response.body.grade = Trim(history.issued[req[r].certId].grade)
           /\ ~certificates[req[r].certId].isRevoked => ~req[r].response.body.isRevoked

C6_Witness ==
    \E r \in Clients :
        /\ Answered(r, "verify")
        /\ req[r].certId \in DOMAIN history.issued
        /\ req[r].response.status = 200
        /\ req[r].response.body.exists
        /\ ~req[r].response.body.isRevoked
        /\ req[r].response.body.studentName = <<"A", "d", "a">>
        /\ history.issued[req[r].certId].studentName = <<" ", "A", "d", "a", " ">>

\* C7: once an admin revoke of a certificate has succeeded, a verify of it
\* with the ledger reachable returns isRevoked = true and the studentName,
\* course and grade the record had before, and an admin revoke of it that
\* reaches the ledger is answered 400 "Certificate is already revoked".
C7_RevokedVerifies ==
    \A r \in Clients :
        (/\ Answered(r, "verify")
         /\ req[r].certId \in DOMAIN history.revoked
         /\ ~Unreachable(req[r].response))
        => /\ req[r].response.status = 200
           /\ req[r].response.body.exists
           /\ req[r].response.body.isRevoked
           /\ req[r].response.body.studentName = history.revoked[req[r].certId].studentName
           /\ req[r].response.body.course = history.revoked[req[r].certId].course
           /\ req[r].response.body.grade = history.revoked[req[r].certId].grade

C7_SecondRevokeConflicts ==
    \A r \in Clients :
        (/\ req[r].kind = "revoke" /\ req[r].pc # "done" /\ req'[r].pc = "done"
         /\ req[r].certId \in DOMAIN history.revoked
         /\ ~Unreachable(req'[r].response))
        => req'[r].response = Json(400, [error |-> "Certificate is already revoked"])

C7_RevokeThenVerifyThenRevoke == []C7_RevokedVerifies /\ [][C7_SecondRevokeConflicts]_vars

\* The second revoke has been answered with the conflict.
C7_Witness ==
    \E r \in Clients :
        /\ Answered(r, "revoke")
        /\ req[r].certId \in DOMAIN history.revoked
        /\ req[r].response.status = 400
        /\ certificates[req[r].certId].isRevoked
        /\ certificates[req[r].certId].studentName = history.revoked[req[r].certId].studentName

\* C8: a verify of a certId that the ledger has no record of, with the
\* ledger reachable, is answered 200 with exists = false.
C8_NeverIssuedIsNotFound ==
    \A r \in Clients :
        (/\ Answered(r, "verify")
         /\ ~certificates[req[r].certId].exists
         /\ ~Unreachable(req[r].response))
        => req[r].response = Json(200, [exists |-> FALSE])

C8_Witness ==
    \E r \in Clients :
        /\ Answered(r, "verify")
        /\ req[r].certId = NeverIssuedId
        /\ req[r].response = Json(200, [exists |-> FALSE])

\* C9: a verify whose call cannot reach the ledger is never answered with
\* exists = false: it is answered with status 500 and the transport's error,
\* for a certId with a record and for one without.
C9_UnreachableIsNotNotFound ==
    [][\A r \in Clients :
          VerifyCall(r, FALSE)
          => /\ req'[r].pc = "done"
             /\ req'[r].response.status = 500
             /\ req'[r].response # Json(200, [exists |-> FALSE])
             /\ req'[r].response.body.error = NetworkErrorMsg]_vars

\* The ledger could not be reached for a verify of an issued certificate.
C9_Witness ==
    \E r \in Clients :
        /\ Answered(r, "verify")
        /\ Unreachable(req[r].response)
        /\ certificates[req[r].certId].exists

\* C10: a step of an issuance that renames an upload to the name derived
\* from a certId, or inserts the LocalRecord of a certId, is a step of a
\* handler whose own ledger write for that certId has been confirmed: the
\* ledger holds, before the step, the record that handler submitted.
Exts == {".pdf", ".png"}

MirrorWritten(c) ==
    \/ c \in DOMAIN db' /\ c \notin DOMAIN db
    \/ \E e \in Exts :
          /\ DocName(c, e) \in DOMAIN uploads'
          /\ DocName(c, e) \in DOMAIN uploads => uploads'[DocName(c, e)] # uploads[DocName(c, e)]

LedgerWriteConfirmed(r, c) ==
    /\ req[r].kind = "issue" /\ req[r].certId = c
    /\ req[r].pc \in {"confirmed", "qr"}
    /\ certificates[c].exists
    /\ certificates[c].studentName = req[r].body.studentName
    /\ certificates[c].course = req[r].body.course
    /\ certificates[c].grade = req[r].body.grade

C10_MirrorAfterLedgerWrite ==
    [][\A c \in CertIds :
          MirrorWritten(c)
          => \E r \in Reqs : LedgerWriteConfirmed(r, c) /\ req'[r] # req[r]]_vars

\* A certificate with its document and its LocalRecord, while another
\* issuance that drew the same certId has failed.
C10_Witness ==
    \E c \in CertIds, r \in Reqs :
        /\ c \in DOMAIN db
        /\ db[c].documentPath = DocName(c, ".pdf")
        /\ DocName(c, ".pdf") \in DOMAIN uploads
        /\ Answered(r, "issue") /\ req[r].certId = c /\ req[r].response.status = 500

\* C11: an issuance whose ledger write fails (the call reverts because the
\* certId has a record or the wallet is not authorized, or the ledger cannot
\* be reached) finishes without having inserted a LocalRecord or stored a
\* document under a certId-derived name, and with its temp file gone; when no
\* other issuance has written for that certId, the certId has no LocalRecord
\* and no document at all.
C11_FailedLedgerWritePersistsNothing ==
    [][\A r \in Reqs :
          (/\ req[r].kind = "issue" /\ req[r].pc \in {"estimate", "wait"}
           /\ req'[r].pc = "done")
          => /\ req'[r].response.status = 500
             /\ db' = db
             /\ req[r].documentPath = Null
             /\ \A c \in CertIds, e \in Exts :
                   DocName(c, e) \in DOMAIN uploads'
                   => /\ DocName(c, e) \in DOMAIN uploads
                      /\ uploads'[DocName(c, e)] = uploads[DocName(c, e)]
             /\ req[r].file # NoUpload => ~ExistsSync(uploads', req[r].file.path)
             /\ (/\ req[r].certId \notin DOMAIN history.issued
                 /\ \A o \in Reqs \ {r} : req[o].certId # req[r].certId)
                => /\ req[r].certId \notin DOMAIN db'
                   /\ \A e \in Exts : ~ExistsSync(uploads', DocName(req[r].certId, e))]_vars

\* An issuance with an upload has failed at its ledger write: the ledger
\* has no record of its certId.
C11_Witness ==
    \E r \in Reqs :
        /\ Answered(r, "issue") /\ req[r].response.status = 500
        /\ req[r].file # NoUpload
        /\ req[r].certId # Null
        /\ ~certificates[req[r].certId].exists
        /\ ~ExistsSync(uploads, req[r].file.path)

\* C12: of two issuances that drew the same certId and of which one wrote
\* the ledger record, exactly one is answered with success, and the certId
\* has its LocalRecord.
C12_RaceHasOneWinner ==
    \A r, o \in Reqs :
        (/\ r # o
         /\ Answered(r, "issue") /\ Answered(o, "issue")
         /\ req[r].certId # Null /\ req[r].certId = req[o].certId
         /\ certificates[req[r].certId].exists)
        => /\ (req[r].response.status = 200) # (req[o].response.status = 200)
           /\ req[r].certId \in DOMAIN db

\* C13: a certId whose issuance wrote the ledger and then failed at its
\* LocalRecord insert verifies as existing, with the studentName, course and
\* grade that were posted, trimmed, without a document, and as not revoked
\* for as long as nobody has revoked it.
C13_UnmirroredCertificateVerifies ==
    \A r \in Clients :
        (/\ Answered(r, "verify")
         /\ req[r].certId \in DOMAIN history.unmirrored)
        => /\ req[r].response.status = 200
           /\ req[r].response.body.exists
           /\ req[r].response.body.studentName = Trim(history.unmirrored[req[r].certId].studentName)
           /\ req[r].response.body.course = Trim(history.unmirrored[req[r].certId].course)
           /\ req[r].response.body.grade = Trim(history.unmirrored[req[r].certId].grade)
           /\ ~req[r].response.body.hasDocument
           /\ ~certificates[req[r].certId].isRevoked => ~req[r].response.body.isRevoked

\* The issuance had a document, which was renamed before the insert failed.
C13_Witness ==
    \E r \in Clients :
        /\ Answered(r, "verify")
        /\ req[r].certId \in DOMAIN history.unmirrored
        /\ req[r].certId \notin DOMAIN db
        /\ ExistsSync(uploads, DocName(req[r].certId, ".pdf"))
        /\ req[r].response.body.studentName = <<"A", "d", "a">>
        /\ ~req[r].response.body.isRevoked
        /\ ~req[r].response.body.hasDocument

\* C14: an issuance that fails after its ledger write has been confirmed (at
\* the rename of its document or at the insert of its LocalRecord) is not
\* answered as an issuance whose ledger write failed is: its answer is no
\* generic failure.
C14_StorageFailureIsPartialSuccess ==
    [][\A r \in Clients :
          (/\ req[r].kind = "issue" /\ req[r].pc \in {"confirmed", "qr"}
           /\ req'[r].pc = "done" /\ req'[r].response.status # 200)
          => /\ req'[r].response # errorHandler(NetworkErrorMsg)
             /\ req'[r].response # errorHandler(CallException(AlreadyExistsMsg))]_vars

\* C15: an admin delete of a certId that has a LocalRecord removes the row
\* and the document the row names, and leaves the other rows and the
\* contract's storage as they were; a verify of that certId afterwards is
\* answered with exists = true and the fields and the revocation flag of the
\* ledger's record.
C15_DeleteRemovesRowAndDocument ==
    \A r \in Clients, c \in IssuableIds :
        (DeleteHandle(r, "valid", c) /\ c \in DOMAIN db)
        => /\ req'[r].response.status = 200
           /\ c \notin DOMAIN db'
           /\ \A d \in DOMAIN db \ {c} : d \in DOMAIN db' /\ db'[d] = db[d]
           /\ db[c].documentPath # Null => ~ExistsSync(uploads', db[c].documentPath)
           /\ certificates' = certificates
           /\ authorizedInstitutions' = authorizedInstitutions
           /\ admin' = admin

C15_VerifiesAfterDelete ==
    \A r \in Clients :
        (/\ Answered(r, "verify")
         /\ req[r].certId \in DOMAIN history.issued
         /\ req[r].certId \notin DOMAIN db)
        => /\ req[r].response.status = 200
           /\ req[r].response.body.exists
           /\ req[r].response.body.studentName = certificates[req[r].certId].studentName
           /\ req[r].response.body.course = certificates[req[r].certId].course
           /\ req[r].response.body.grade = certificates[req[r].certId].grade
           /\ req[r].response.body.issueDate = certificates[req[r].certId].issueDate
           /\ req[r].response.body.isRevoked = certificates[req[r].certId].isRevoked
           /\ req[r].response.body.studentName = Trim(history.issued[req[r].certId].studentName)

C15_DeleteLeavesLedger ==
    []C15_VerifiesAfterDelete /\ [][C15_DeleteRemovesRowAndDocument]_vars

\* A certificate issued with a document, revoked, its LocalRecord deleted,
\* and verified since.
C15_Witness ==
    \E r \in Clients :
        /\ Answered(r, "verify")
        /\ req[r].certId \in DOMAIN history.issued
        /\ req[r].certId \notin DOMAIN db
        /\ ~ExistsSync(uploads, DocName(req[r].certId, ".pdf"))
        /\ req[r].response.body.exists
        /\ req[r].response.body.isRevoked
        /\ req[r].response.body.studentName = <<"A", "d", "a">>

\* C16: the exists, studentName, course, grade, issueDate and isRevoked of a
\* verify response are those of the ledger's record, and they are what the
\* handler would have sent had the Local Record Store held no row for the
\* certId, or a row with other field values, with or without a document;
\* of the response's fields only hasDocument and txHash vary with the row.
ForgedBody == [studentName |-> <<"M", "a", "l">>, course |-> <<"X", "X">>, grade |-> <<"F">>]

OtherStores(c) ==
    {<<>>,
     [x \in {c} |-> Row(c, ForgedBody, "0xforged", Null, <<>>)],
     [x \in {c} |-> Row(c, ForgedBody, "0xforged", "forged.pdf", <<"f", ".pdf">>)]}

SameButForRow(sent, other) ==
    /\ other.status = sent.status
    /\ DOMAIN other.body = DOMAIN sent.body
    /\ \A f \in DOMAIN sent.body \ {"hasDocument", "txHash"} : other.body[f] = sent.body[f]

C16_VerifyReadsLedgerOnly ==
    [][\A r \in Clients :
          VerifyRespond(r)
          => /\ req'[r].response.body.exists
             /\ req'[r].response.body.studentName = certificates[req[r].certId].studentName
             /\ req'[r].response.body.course = certificates[req[r].certId].course
             /\ req'[r].response.body.grade = certificates[req[r].certId].grade
             /\ req'[r].response.body.issueDate = certificates[req[r].certId].issueDate
             /\ req'[r].response.body.isRevoked = certificates[req[r].certId].isRevoked
             /\ \A rows \in OtherStores(req[r].certId) :
                   SameButForRow(req'[r].response,
                                 VerifyResponse(req[r].certId, req[r].result, rows))
             /\ \E rows \in OtherStores(req[r].certId) :
                   LET other == VerifyResponse(req[r].certId, req[r].result, rows).body IN
                   /\ other.hasDocument # req'[r].response.body.hasDocument
                   /\ other.txHash # req'[r].response.body.txHash]_vars

\* A verify answered for a revoked certificate whose LocalRecord has a
\* document.
C16_Witness ==
    \E r \in Clients :
        /\ Answered(r, "verify")
        /\ req[r].certId \in DOMAIN db
        /\ req[r].response.status = 200
        /\ req[r].response.body.hasDocument
        /\ req[r].response.body.txHash = db[req[r].certId].txHash
        /\ req[r].response.body.isRevoked
        /\ req[r].response.body.studentName = db[req[r].certId].studentName

\* C17: an issuance whose studentName, course or grade is missing or, once
\* trimmed, shorter or longer than its bounds is answered 400 without a
\* ledger write, without a LocalRecord, and without a file of the request
\* left in the uploads directory.
Rejectable(body) ==
    \/ Undefined \in {body.studentName, body.course, body.grade}
    \/ Len(Trim(body.studentName)) \notin NameMin..NameMax
    \/ Len(Trim(body.course)) \notin CourseMin..CourseMax
    \/ Len(Trim(body.grade)) \notin GradeMin..GradeMax

C17_RejectedWithoutWrites ==
    \A r \in Clients :
        (IssueHandle(r) /\ Rejectable(req[r].input.body))
        => /\ req'[r].pc = "done"
           /\ req'[r].response.status = 400
           /\ certificates' = certificates
           /\ db' = db

C17_RejectedBeforeAnyWrite ==
    [][\A r \in Clients :
          (IssueHandle(r) /\ Rejectable(req[r].input.body))
          => /\ C17_RejectedWithoutWrites
             /\ req[r].file # NoUpload => ~ExistsSync(uploads', req[r].file.path)]_vars

\* C18: a revoke, an update or a delete request that carries no token, or a
\* token that does not verify, is answered 401 or 403 and changes neither
\* the contract's storage, nor the certificates table, nor the uploads
\* directory.
C18_AdminOnly ==
    [][\A r \in Clients, t \in Tokens \ {"valid"}, c \in IssuableIds :
          (\/ RevokeReceive(r, t, c)
           \/ DeleteHandle(r, t, c)
           \/ \E p \in AdminPuts : UpdateReceive(r, t, c, p[1], p[2]))
          => /\ req'[r].pc = "done"
             /\ req'[r].response.status = (IF t = "none" THEN 401 ELSE 403)
             /\ certificates' = certificates
             /\ authorizedInstitutions' = authorizedInstitutions
             /\ db' = db
             /\ uploads' = uploads]_vars

\* An update with a forged token has been rejected for a certificate that
\* has a LocalRecord with its document and is not revoked.
C18_Witness ==
    \E r \in Clients :
        /\ Answered(r, "update") /\ req[r].response.status = 403
        /\ req[r].certId \in DOMAIN db
        /\ db[req[r].certId].documentPath = DocName(req[r].certId, ".pdf")
        /\ ExistsSync(uploads, DocName(req[r].certId, ".pdf"))
        /\ ~certificates[req[r].certId].isRevoked

\* C19: no list request that carries no token, or a token that does not
\* verify, is answered with rows of the certificates table, whichever of
\* the two list endpoints it is sent to.
C19_ListingIsAdminOnly ==
    [][\A r \in Clients, t \in Tokens \ {"valid"} :
          (ListReceive(r, t) \/ LegacyList(r, t))
          => /\ req'[r].pc = "done"
             /\ ~(/\ req'[r].response.status = 200
                  /\ DOMAIN req'[r].response.body.certificates # {})]_vars

\* C20: the step in which an issuance is answered with success is a step
\* of a handler whose ledger write has been confirmed: before the step the
\* ledger holds the record the handler submitted for the certId it reports,
\* and after it the certificates table holds a row with that certId and the
\* txHash of the write, the one the response reports.
C20_SuccessAfterConfirmation ==
    [][\A r \in Reqs :
          (/\ req[r].kind = "issue" /\ req[r].pc # "done"
           /\ req'[r].pc = "done" /\ req'[r].response.status = 200)
          => /\ req'[r].response.body.success
             /\ req'[r].response.body.certId = req[r].certId
             /\ LedgerWriteConfirmed(r, req[r].certId)
             /\ req[r].certId \in DOMAIN db'
             /\ db'[req[r].certId].certId = req[r].certId
             /\ db'[req[r].certId].txHash = TxHash("issueCertificate", req[r].certId)
             /\ req'[r].response.body.txHash = db'[req[r].certId].txHash]_vars

\* An issuance has been answered with success.
C20_Witness ==
    \E r \in Reqs :
        /\ Answered(r, "issue") /\ req[r].response.status = 200
        /\ req[r].response.body.certId = req[r].certId
        /\ certificates[req[r].certId].exists
        /\ certificates[req[r].certId].studentName = <<"A", "d", "a">>
        /\ req[r].certId \in DOMAIN db
        /\ db[req[r].certId].txHash = req[r].response.body.txHash

C22_LedgerAccessControl ==
    [][/\ \A r \in Reqs :
             (/\ Settles(r, "issueCertificate") \/ Settles(r, "revokeCertificate")
              /\ ~authorizedInstitutions[req'[r].response.body.sender])
             => /\ req'[r].response.body.reverted
                /\ req'[r].response.body.reason = NotAuthorizedMsg
                /\ certificates' = certificates
                /\ authorizedInstitutions' = authorizedInstitutions
       /\ \A r \in Reqs :
             (/\ Settles(r, "addInstitution")
              /\ req'[r].response.body.sender # admin)
             => /\ req'[r].response.body.reverted
                /\ req'[r].response.body.reason = OnlyAdminMsg
                /\ certificates' = certificates
                /\ authorizedInstitutions' = authorizedInstitutions
       /\ admin' = admin
       /\ \A a \in Addresses : authorizedInstitutions[a] => authorizedInstitutions'[a]]_vars

\* An address that is not authorized has tried to revoke a certificate, after
\* the admin has authorized another address.
C22_Witness ==
    \E r \in Reqs :
        /\ req[r].kind = "revokeCertificate" /\ req[r].pc = "done"
        /\ req[r].response.body.sender = "outsider"
        /\ req[r].response.body.reason = NotAuthorizedMsg
        /\ certificates[req[r].certId].exists
        /\ ~certificates[req[r].certId].isRevoked
        /\ authorizedInstitutions[Wallet]
        /\ ~authorizedInstitutions["outsider"]

C24_RevokeRaceHasOneConflict ==
    \A r, o \in Reqs :
        (/\ r # o
         /\ Answered(r, "revoke") /\ Answered(o, "revoke")
         /\ req[r].certId = req[o].certId
         /\ req[r].response.status = 200
         /\ req[o].response.status # 404)
        => /\ certificates[req[r].certId].isRevoked
           /\ req[o].response = Json(400, [error |-> "Certificate is already revoked"])

\* C25: the certId of every row of the certificates table has a record on
\* the ledger.
C25_LocalRecordsAreOnLedger ==
    \A c \in DOMAIN db : certificates[c].exists

\* A row with notes for a revoked certificate, beside a certificate of the
\* ledger that has no row.
C25_Witness ==
    \E c \in DOMAIN db, d \in IssuableIds :
        /\ d \notin DOMAIN db /\ certificates[d].exists
        /\ certificates[c].isRevoked
        /\ db[c].notes = <<"n">>

\* C26: the documentPath of every row of the certificates table that has
\* one names a file of the uploads directory.
C26_DocumentPathsExist ==
    \A c \in DOMAIN db :
        db[c].documentPath # Null => ExistsSync(uploads, db[c].documentPath)

\* C27: an admin update that uploads a document for a certId that has no
\* LocalRecord is answered 404 and leaves the certificates table as it was
\* and no file of the request in the uploads directory.
C27_UpdateOfNothingLeavesNothing ==
    [][\A r \in Clients :
          (/\ UpdateHandle(r)
           /\ req[r].file # NoUpload
           /\ req[r].certId \notin DOMAIN db)
          => /\ req'[r].response.status = 404
             /\ db' = db
             /\ ~ExistsSync(uploads', req[r].file.path)]_vars

\* C28: the admin table shows a listed row as Valid only if the ledger read
\* for its certId succeeded and returned isRevoked = false; a certificate
\* that is revoked on the ledger is not shown as Valid.
C28_RevokedIsNeverShownValid ==
    \A r \in Clients :
        (Answered(r, "list") /\ req[r].response.status = 200)
        => \A c \in DOMAIN req[r].response.body.certificates :
              LET item == req[r].response.body.certificates[c] IN
              StatusBadge(item) = "Valid"
              => /\ item.fetched
                 /\ ~item.blockchainData.isRevoked
                 /\ ~certificates[c].isRevoked

\* C29: when the ledger read of the pdf endpoint or of the download endpoint
\* finds the certificate revoked the answer is the refusal 400, and when it
\* finds no certificate the answer is 404, whatever rows and files there
\* are; the handler goes on towards a file only for a certificate that is on
\* the ledger and not revoked.
C29_NoFileForRevokedOrAbsent ==
    [][\A r \in Clients :
          (req[r].kind \in {"pdf", "download"} /\ req[r].pc = "call"
           /\ req'[r] # req[r])
          => LET c == req[r].certId IN
             /\ certificates[c].exists /\ certificates[c].isRevoked
                => req'[r].pc = "done" /\ req'[r].response.status = 400
             /\ ~certificates[c].exists
                => req'[r].pc = "done" /\ req'[r].response.status = 404
             /\ req'[r].pc # "done"
                => certificates[c].exists /\ ~certificates[c].isRevoked]_vars

\* A download of a revoked certificate whose row and document are there is
\* refused.
C29_Witness ==
    \E r \in Clients :
        /\ Answered(r, "download")
        /\ req[r].response = RevokedRefusal
        /\ req[r].certId \in DOMAIN db
        /\ db[req[r].certId].documentPath # Null
        /\ ExistsSync(uploads, db[req[r].certId].documentPath)

\* An issuance in flight whose uploaded file still has its temp name.
HoldsTempFile(r) ==
    /\ req[r].kind = "issue"
    /\ req[r].pc \notin {"idle", "done", "qr"}
    /\ req[r].file # NoUpload

\* C30: two issuances in flight at the same time never share a temp file
\* path, and the document a handler has renamed after its certId is the
\* one uploaded with its request.
C30_TempPathsAreDistinct ==
    /\ \A r, o \in Reqs :
          (r # o /\ HoldsTempFile(r) /\ HoldsTempFile(o))
          => req[r].file.path # req[o].file.path
    /\ \A r \in Reqs :
          (req[r].kind = "issue" /\ req[r].pc = "qr" /\ req[r].documentPath # Null
           /\ ExistsSync(uploads, req[r].documentPath))
          => uploads[req[r].documentPath] = req[r].file.originalname
====
